---- MODULE Spec2Model ----
(***************************************************************************)
(* Model of the paginated incremental crawl engine of                      *)
(* src/steam_item_crawler.py: SteamItemCrawler.enrich_item_list (probe,    *)
(* page loop, rate-limit wait, checkpoint write, page fetch, record        *)
(* normalisation) and SteamItemCrawler.save_to_json (load, merge, write),  *)
(* run as a process that can be killed and started again.                  *)
(***************************************************************************)
EXTENDS Integers, Sequences, FiniteSets, TLC

\* ------------------------------------------------------------------ bounds
MaxTotal == 4          \* largest total_count the remote reports
MaxBatch == 2          \* largest batch_size the process is configured with
MaxRuns == 3           \* number of process starts explored
MaxBatchLen == 2       \* longest batch handed to save_to_json in SpecMerge
MaxMerges == 3         \* number of fresh batches merged in SpecMerge
NumRecords == 2        \* distinct records the batches of SpecMerge draw from
MaxStrLen == 3         \* longest hash name and display name in SpecNorm
MaxParts == 2          \* most key=value parts of a filter descriptor in SpecQuery
MaxStart == 2          \* largest page offset in SpecQuery

VARIABLES
    pc,                  \* position of the process in enrich_item_list / save_to_json
    run,                 \* number of the current process start
    outcome,             \* how the current run ended (or "running")
    envPage,             \* the checkpoint key persisted in the .env file
    file,                \* the output JSON file on disk
    batch_size,          \* self.batch_size
    total_count,         \* size of the remote result set
    last_processed_page, \* argument of enrich_item_list, read at process start
    total_items,         \* local of enrich_item_list
    i,                   \* loop variable of enrich_item_list
    data,                \* argument of save_to_json
    prevFile,            \* the output file when the latest save_to_json was entered
    caller,              \* call site of the running save_to_json: "page" or "flush"
    existing_data,       \* local of save_to_json
    combined_data,       \* local of save_to_json
    requests,            \* page requests received by the remote, all runs
    probes,              \* probe requests received by the remote in this run
    waits,               \* rate-limit waits begun in this run
    failedPages,         \* pages of this run whose fetch failed
    mergedPages,         \* pages of this run whose save_to_json wrote the store
    savedPages,          \* pages of this run whose save_to_json returned
    ioFailed,            \* some store write of this run failed
    flushed,             \* the interrupt handler's save_to_json returned
    file0,               \* the output file when the run started
    env0,                \* the checkpoint when the run started
    intPage,             \* page whose wait was interrupted (0: none)
    crashedPage,         \* page in flight and unmerged when the process was killed (0: none)
    mCalls,              \* SpecMerge: calls of save_to_json with the batch data
    mOnce,               \* SpecMerge: the file after the first call with data
    mCount,              \* SpecMerge: fresh batches merged so far
    lastResults,         \* result_list of the latest successful page fetch of this run
    nItem,               \* SpecNorm: the raw item handed to the loop body
    nOut,                \* SpecNorm: what the loop body made of it
    qQuery,              \* SpecQuery: the query string, split at '&'
    qMax,                \* SpecQuery: max_results
    qParams              \* SpecQuery: the params dict built by make_steam_request

vars == <<pc, run, outcome, envPage, file, batch_size, total_count,
          last_processed_page, total_items, i, data, caller, existing_data,
          combined_data, requests, probes, waits, failedPages, mergedPages,
          savedPages, ioFailed, flushed, file0, env0, intPage, crashedPage,
          prevFile, mCalls, mOnce, mCount, lastResults, nItem, nOut,
          qQuery, qMax, qParams>>

crawlVars == <<pc, run, outcome, envPage, batch_size, total_count,
               last_processed_page, total_items, i, caller, requests, probes,
               waits, failedPages, mergedPages, savedPages, ioFailed, flushed,
               file0, env0, intPage, crashedPage, lastResults>>

mergeVars == <<mCalls, mOnce, mCount>>

pureVars == <<nItem, nOut, qQuery, qMax, qParams>>

\* ------------------------------------------------------------ pure helpers
\* math.ceil(a / b) for a >= 0, b >= 1
ceil_div(a, b) == (a + b - 1) \div b

\* total_pages = math.ceil(total_items / self.batch_size)
total_pages == ceil_div(total_items, batch_size)

\* page_to_process = last_processed_page + 1
page_to_process == last_processed_page + 1

\* current_page = math.ceil(i / self.batch_size)
current_page == ceil_div(i, batch_size)

batch_start == i

Min(a, b) == IF a <= b THEN a ELSE b

\* batch_end = min(i + self.batch_size, total_items)
batch_end == Min(i + batch_size, total_items)

\* x in s, for a list s
InList(x, s) == \E k \in 1..Len(s) : s[k] = x

\* ------------------------------------------------------ make_steam_request
\* A query string is the sequence of its parts between '&'; a part either has
\* an '=' (key and value are the text before and after the first one) or not.
Part(k, v) == [eq |-> TRUE, key |-> k, value |-> v]
Bare(k) == [eq |-> FALSE, key |-> k, value |-> ""]

\* int(value) for the decimal strings the model writes
IntOf(str) == CHOOSE n \in 0..(MaxTotal + 2 * MaxBatch + MaxStart) : ToString(n) = str

\* the part f"&start={batch_start}" appends
StartPart(n) == Part("start", ToString(n))

\* the params dict before the query is looked at
DefaultParams(max_results) ==
    [k \in {"query", "start", "count", "search_descriptions", "sort_column",
            "sort_dir", "appid", "currency", "norender"} |->
        CASE k = "query" -> ""
          [] k = "start" -> 0
          [] k = "count" -> max_results
          [] k = "search_descriptions" -> 0
          [] k = "sort_column" -> "price"
          [] k = "sort_dir" -> "asc"
          [] k = "appid" -> 753
          [] k = "currency" -> 1
          [] k = "norender" -> 1]

\* params[k] = v
SetParam(params, k, v) ==
    [x \in DOMAIN params \cup {k} |-> IF x = k THEN v ELSE params[x]]

\* the body of the loop over query_parts (lines 36-43)
ApplyPart(params, part) ==
    IF ~part.eq THEN params
    ELSE IF part.key = "category_753_item_class%5B%5D"
         THEN SetParam(params, "category_753_item_class[]", part.value)
    ELSE IF part.key = "category_753_cardborder%5B%5D"
         THEN SetParam(params, "category_753_cardborder[]", part.value)
    ELSE IF part.key = "start"
         THEN SetParam(params, "start", IntOf(part.value))
    ELSE params

RECURSIVE ApplyParts(_, _)
ApplyParts(params, parts) ==
    IF parts = <<>> THEN params
    ELSE ApplyParts(ApplyPart(params, Head(parts)), Tail(parts))

\* the params make_steam_request(query, max_results) sends
RequestParams(query, max_results) == ApplyParts(DefaultParams(max_results), query)

\* QUERY_ITEM of __main__
QUERY_ITEM ==
    <<Part("category_753_item_class[]", "tag_item_class_2"),
      Part("category_753_cardborder[]", "tag_cardborder_0"),
      Part("category_753_cardborder[]", "tag_cardborder_1"),
      Part("category_753_type%5B%5D", "tag_type_0")>>

\* ------------------------------------------------------------ raw items
\* Strings are sequences of characters.  A key of a raw item is either
\* missing or carries a string.
Missing == [has |-> FALSE, val |-> <<>>]
Some(str) == [has |-> TRUE, val |-> str]

\* asset_description is either missing or a dict with optional game and type.
NoDescription == [has |-> FALSE, game |-> Missing, type |-> Missing]
Description(g, t) == [has |-> TRUE, game |-> g, type |-> t]

\* an element of results that is not a dict
NotKeyed == [keyed |-> FALSE, hash_name |-> Missing, name |-> Missing,
             asset_description |-> NoDescription]

\* hash name and display name of the remote item at offset o
HashOf(o) == <<"7", "5", "3", "-", ToString(o)>>
NameOf(o) == <<"C", "a", "r", "d", " ", ToString(o)>>

\* The raw item at offset o as the response carries it: complete ("full"),
\* without asset_description ("noad"), or not a dict at all ("notdict").
Shapes == {"full", "noad", "notdict"}

RawItem(o, shape) ==
    IF shape = "notdict" THEN NotKeyed
    ELSE [keyed |-> TRUE, hash_name |-> Some(HashOf(o)), name |-> Some(NameOf(o)),
          asset_description |-> IF shape = "noad" THEN NoDescription
                                ELSE Description(Some(<<"G">>), Some(<<"T">>))]

\* ------------------------------------------------------------ the remote
\* Offsets the remote returns for a request start=s, count=c against a result
\* set of n items.
PageOffsets(s, c, n) == {o \in 0..(n - 1) : s <= o /\ o < s + c}

\* The results array of such a response, in offset order.
ResultList(s, c, n, shape) ==
    LET k == Cardinality(PageOffsets(s, c, n))
    IN  [j \in 1..k |-> RawItem(s + j - 1, shape[j])]

\* ---------------------------------------------------------- normalisation
market_base_url == <<"https://steamcommunity.com/market/listings/">>

\* the placeholders '未知名称', '未知游戏', '未知类型'
UnknownName == <<"unknown-name">>
UnknownGame == <<"unknown-game">>
UnknownType == <<"unknown-type">>

\* dict.get(key, default)
Get(field, default) == IF field.has THEN field.val ELSE default

\* str.replace(' ', '_')
ReplaceSpaces(str) == [k \in 1..Len(str) |-> IF str[k] = " " THEN "_" ELSE str[k]]

\* urllib.parse.quote: letters, digits and _ . - ~ / stay, any other character
\* becomes % and its two hex digits
QuoteChar(c) ==
    IF c = " " THEN <<"%", "2", "0">>
    ELSE IF c = "&" THEN <<"%", "2", "6">>
    ELSE IF c = "%" THEN <<"%", "2", "5">>
    ELSE <<c>>

RECURSIVE quote(_)
quote(str) == IF str = <<>> THEN <<>> ELSE QuoteChar(Head(str)) \o quote(Tail(str))

\* market_hash_name with the fallback kept as it is, spaces included
market_hash_name_raw(item) ==
    IF Get(item.hash_name, <<>>) # <<>> THEN Get(item.hash_name, <<>>)
    ELSE Get(item.name, <<>>)

\* market_hash_name = item.get('hash_name', ''); if not market_hash_name:
\* market_hash_name = item.get('name', '').replace(' ', '_')
market_hash_name(item) ==
    IF Get(item.hash_name, <<>>) # <<>> THEN Get(item.hash_name, <<>>)
    ELSE ReplaceSpaces(Get(item.name, <<>>))

\* item_market_url = f"{self.market_base_url}753/{quote(market_hash_name)}"
item_market_url(item) == market_base_url \o <<"753/">> \o quote(market_hash_name(item))

\* The exception the loop body raises for a raw item: item.get on something
\* that is no dict (AttributeError), item['asset_description'] on a dict
\* without that key (KeyError); "none" when it raises nothing.
Exception(item) ==
    IF ~item.keyed THEN "AttributeError"
    ELSE IF ~item.asset_description.has THEN "KeyError"
    ELSE "none"

Raises(item) == Exception(item) # "none"

\* The record built for one raw item (the dict literal of the loop body).
Normalize(item, now) ==
    [item_market_url |-> item_market_url(item),
     name            |-> Get(item.name, UnknownName),
     type            |-> "trading_card",
     subtype         |-> "steam_all_games",
     game_name       |-> Get(item.asset_description.game, UnknownGame),
     game_type       |-> Get(item.asset_description.type, UnknownType),
     fetch_time      |-> now]

\* ------------------------------------------------------------ save_to_json
AbsentFile == [kind |-> "absent", data |-> <<>>]
CorruptFile == [kind |-> "corrupt", data |-> <<>>]
OkFile(s) == [kind |-> "ok", data |-> s]

\* existing_data after the load: [] when the file is absent or unparseable
Existing(f) == IF f.kind = "ok" THEN f.data ELSE <<>>

\* Combined without the membership filter: existing_data + data
Combined_nodedup(existing, d) == existing \o d

\* Combined with the new records put in front of the existing ones
Combined_prepend(existing, d) ==
    SelectSeq(d, LAMBDA x : ~InList(x, existing)) \o existing

\* combined_data = existing_data + [item for item in data if item not in existing_data]
Combined(existing, d) ==
    existing \o SelectSeq(d, LAMBDA x : ~InList(x, existing))

\* the file after a save_to_json whose file operations all succeed
SaveToJson(f, d) == OkFile(Combined(Existing(f), d))

\* the interpreter's locals are gone once the process has ended
NoLocals ==
    /\ total_items' = 0
    /\ i' = 0
    /\ data' = <<>>
    /\ caller' = "none"
    /\ existing_data' = <<>>
    /\ combined_data' = <<>>

\* ------------------------------------------------------------------- Init
\* A record left in the output file by an earlier crawl of other items.
Legacy == Normalize(RawItem(-1, "full"), <<0, 0>>)

InitFiles == {AbsentFile, CorruptFile, OkFile(<<Legacy>>)}

Init ==
    /\ pc = "idle"
    /\ run = 0
    /\ outcome = "none"
    /\ envPage = 0
    /\ file \in InitFiles
    /\ batch_size \in 1..MaxBatch
    /\ total_count \in 0..MaxTotal
    /\ last_processed_page = 0
    /\ total_items = 0
    /\ i = 0
    /\ data = <<>>
    /\ caller = "none"
    /\ existing_data = <<>>
    /\ combined_data = <<>>
    /\ requests = <<>>
    /\ probes = 0
    /\ waits = 0
    /\ failedPages = {}
    /\ mergedPages = {}
    /\ savedPages = {}
    /\ ioFailed = FALSE
    /\ flushed = FALSE
    /\ file0 = file
    /\ env0 = 0
    /\ intPage = 0
    /\ crashedPage = 0
    /\ mCalls = 0
    /\ prevFile = file
    /\ mOnce = file
    /\ mCount = 0
    /\ lastResults = <<>>
    /\ nItem = NotKeyed
    /\ nOut = [status |-> "none", rec |-> <<>>]
    /\ qQuery = <<>>
    /\ qMax = 0
    /\ qParams = <<>>

\* ------------------------------------------------ process start (__main__)
\* Launch with the persisted checkpoint ignored: every start begins at page 1
Launch_ignore ==
    /\ pc \in {"idle", "done", "crashed"}
    /\ run < MaxRuns
    /\ run' = run + 1
    /\ last_processed_page' = 0
    /\ outcome' = "running"
    /\ pc' = "probe"
    /\ probes' = 0
    /\ waits' = 0
    /\ failedPages' = {}
    /\ mergedPages' = {}
    /\ savedPages' = {}
    /\ ioFailed' = FALSE
    /\ flushed' = FALSE
    /\ intPage' = 0
    /\ file0' = file
    /\ env0' = envPage
    /\ lastResults' = <<>>
    /\ NoLocals
    /\ UNCHANGED <<envPage, file, batch_size, total_count, requests,
                   crashedPage, prevFile, mergeVars, pureVars>>

\* LAST_PROCESSED_PAGE = int(os.getenv("ALL_GAMES_CARD_PAGE", 0)), then
\* crawler.enrich_data(...) -> enrich_item_list(...)
Launch ==
    /\ pc \in {"idle", "done", "crashed"}
    /\ run < MaxRuns
    /\ run' = run + 1
    /\ last_processed_page' = envPage
    /\ outcome' = "running"
    /\ pc' = "probe"
    /\ probes' = 0
    /\ waits' = 0
    /\ failedPages' = {}
    /\ mergedPages' = {}
    /\ savedPages' = {}
    /\ ioFailed' = FALSE
    /\ flushed' = FALSE
    /\ intPage' = 0
    /\ file0' = file
    /\ env0' = envPage
    /\ lastResults' = <<>>
    /\ NoLocals
    /\ UNCHANGED <<envPage, file, batch_size, total_count, requests,
                   crashedPage, prevFile, mergeVars, pureVars>>

\* --------------------------------------------------------- enrich_item_list
\* ProbeOk with the loop started at the checkpointed page itself
ProbeOk_from_last ==
    /\ pc = "probe"
    /\ probes' = probes + 1
    /\ total_items' = total_count
    /\ i' = last_processed_page * batch_size
    /\ crashedPage' = 0
    /\ pc' = "loop"
    /\ UNCHANGED <<run, outcome, envPage, file, batch_size, total_count,
                   last_processed_page, data, caller, existing_data,
                   combined_data, requests, waits, failedPages, mergedPages,
                   savedPages, ioFailed, flushed, file0, env0, intPage,
                   prevFile, lastResults, mergeVars, pureVars>>

\* total_data = self.make_steam_request(query_item, max_results=1) succeeds
ProbeOk ==
    /\ pc = "probe"
    /\ probes' = probes + 1
    /\ total_items' = total_count
    /\ i' = page_to_process * batch_size
    /\ crashedPage' = 0
    /\ pc' = "loop"
    /\ UNCHANGED <<run, outcome, envPage, file, batch_size, total_count,
                   last_processed_page, data, caller, existing_data,
                   combined_data, requests, waits, failedPages, mergedPages,
                   savedPages, ioFailed, flushed, file0, env0, intPage,
                   prevFile, lastResults, mergeVars, pureVars>>

\* ProbeFail without its return: the error is logged and the loop is entered
ProbeFail_noreturn ==
    /\ pc = "probe"
    /\ probes' = probes + 1
    /\ crashedPage' = 0
    /\ outcome' = "probe_abort"
    /\ total_items' = 0
    /\ i' = page_to_process * batch_size
    /\ pc' = "wait"
    /\ waits' = waits + 1
    /\ UNCHANGED <<run, envPage, file, batch_size, total_count,
                   last_processed_page, data, caller,
                   existing_data, combined_data, requests, failedPages,
                   mergedPages, savedPages, ioFailed, flushed, file0, env0,
                   intPage, prevFile, lastResults, mergeVars, pureVars>>

\* the probe fails or its response lacks total_count: return
ProbeFail ==
    /\ pc = "probe"
    /\ probes' = probes + 1
    /\ crashedPage' = 0
    /\ outcome' = "probe_abort"
    /\ pc' = "done"
    /\ UNCHANGED <<run, envPage, file, batch_size, total_count,
                   last_processed_page, total_items, i, data, caller,
                   existing_data, combined_data, requests, waits, failedPages,
                   mergedPages, savedPages, ioFailed, flushed, file0, env0,
                   intPage, prevFile, lastResults, mergeVars, pureVars>>

\* for i in range(page_to_process * B, total_items + B, B): one more value
LoopEnter ==
    /\ pc = "loop"
    /\ i < total_items + batch_size
    /\ waits' = waits + 1
    /\ pc' = "wait"
    /\ UNCHANGED <<run, outcome, envPage, file, batch_size, total_count,
                   last_processed_page, total_items, i, data, caller,
                   existing_data, combined_data, requests, probes, failedPages,
                   mergedPages, savedPages, ioFailed, flushed, file0, env0,
                   intPage, crashedPage, prevFile, lastResults, mergeVars, pureVars>>

\* the range is exhausted: the function returns after its last log line
LoopExit ==
    /\ pc = "loop"
    /\ ~(i < total_items + batch_size)
    /\ outcome' = "completed"
    /\ pc' = "done"
    /\ UNCHANGED <<run, envPage, file, batch_size, total_count,
                   last_processed_page, total_items, i, data, caller,
                   existing_data, combined_data, requests, probes, waits,
                   failedPages, mergedPages, savedPages, ioFailed, flushed,
                   file0, env0, intPage, crashedPage, prevFile, lastResults, mergeVars, pureVars>>

\* Timer.pause(random.uniform(10, 30)) returns
WaitReturn ==
    /\ pc = "wait"
    /\ pc' = "setkey"
    /\ UNCHANGED <<run, outcome, envPage, file, batch_size, total_count,
                   last_processed_page, total_items, i, data, caller,
                   existing_data, combined_data, requests, probes, waits,
                   failedPages, mergedPages, savedPages, ioFailed, flushed,
                   file0, env0, intPage, crashedPage, prevFile, lastResults, mergeVars, pureVars>>

\* WaitInterrupted with the interrupt swallowed: the page is processed anyway
WaitInterrupted_continue ==
    /\ pc = "wait"
    /\ intPage' = current_page
    /\ pc' = "setkey"
    /\ UNCHANGED <<run, outcome, envPage, file, batch_size, total_count,
                   last_processed_page, total_items, i, data, caller,
                   existing_data, combined_data, requests, probes, waits,
                   failedPages, mergedPages, savedPages, ioFailed, flushed,
                   file0, env0, crashedPage, prevFile, lastResults, mergeVars, pureVars>>

\* except KeyboardInterrupt: self.save_to_json([], file_path); return
WaitInterrupted ==
    /\ pc = "wait"
    /\ intPage' = current_page
    /\ data' = <<>>
    /\ caller' = "flush"
    /\ pc' = "save_read"
    /\ UNCHANGED <<run, outcome, envPage, file, batch_size, total_count,
                   last_processed_page, total_items, i, existing_data,
                   combined_data, requests, probes, waits, failedPages,
                   mergedPages, savedPages, ioFailed, flushed, file0, env0,
                   crashedPage, prevFile, lastResults, mergeVars, pureVars>>

\* SetKey writing the page before the current one
SetKey_prev ==
    /\ pc = "setkey"
    /\ envPage' = current_page - 1
    /\ pc' = "fetch"
    /\ UNCHANGED <<run, outcome, file, batch_size, total_count,
                   last_processed_page, total_items, i, data, caller,
                   existing_data, combined_data, requests, probes, waits,
                   failedPages, mergedPages, savedPages, ioFailed, flushed,
                   file0, env0, intPage, crashedPage, prevFile, lastResults, mergeVars, pureVars>>

\* dotenv.set_key(self.env_file_name, control_env_variable_processed_page,
\*                str(current_page))
SetKey ==
    /\ pc = "setkey"
    /\ envPage' = current_page
    /\ pc' = "fetch"
    /\ UNCHANGED <<run, outcome, file, batch_size, total_count,
                   last_processed_page, total_items, i, data, caller,
                   existing_data, combined_data, requests, probes, waits,
                   failedPages, mergedPages, savedPages, ioFailed, flushed,
                   file0, env0, intPage, crashedPage, prevFile, lastResults, mergeVars, pureVars>>

\* the request the remote receives for page_query = f"{query_item}&start={batch_start}"
page_query == QUERY_ITEM \o <<StartPart(batch_start)>>

PageRequest ==
    LET params == RequestParams(page_query, batch_size)
    IN  [run |-> run, start |-> params["start"], count |-> params["count"]]

\* FetchFail with return in place of continue: a failed page ends the run
FetchFail_return ==
    /\ pc = "fetch"
    /\ requests' = Append(requests, PageRequest)
    /\ failedPages' = failedPages \cup {current_page}
    /\ outcome' = "completed"
    /\ pc' = "done"
    /\ UNCHANGED <<run, envPage, file, batch_size, total_count,
                   last_processed_page, total_items, i, data, caller,
                   existing_data, combined_data, probes, waits, mergedPages,
                   savedPages, ioFailed, flushed, file0, env0, intPage,
                   crashedPage, prevFile, lastResults, mergeVars, pureVars>>

\* page_data is None or lacks 'results': log, continue
FetchFail ==
    /\ pc = "fetch"
    /\ requests' = Append(requests, PageRequest)
    /\ failedPages' = failedPages \cup {current_page}
    /\ i' = i + batch_size
    /\ pc' = "loop"
    /\ UNCHANGED <<run, outcome, envPage, file, batch_size, total_count,
                   last_processed_page, total_items, data, caller,
                   existing_data, combined_data, probes, waits, mergedPages,
                   savedPages, ioFailed, flushed, file0, env0, intPage,
                   crashedPage, prevFile, lastResults, mergeVars, pureVars>>

\* the fetch succeeds and every raw item is normalised:
\* self.save_to_json(current_page_items, file_path) is entered
FetchOk ==
    /\ pc = "fetch"
    /\ \E shape \in [1..Cardinality(PageOffsets(batch_start, batch_size, total_count)) -> Shapes] :
          LET result_list == ResultList(batch_start, batch_size, total_count, shape)
          IN  /\ lastResults' = result_list
              /\ \A k \in 1..Len(result_list) : ~Raises(result_list[k])
              /\ data' = [k \in 1..Len(result_list) |->
                            Normalize(result_list[k], <<run, current_page>>)]
    /\ requests' = Append(requests, PageRequest)
    /\ caller' = "page"
    /\ pc' = "save_read"
    /\ UNCHANGED <<run, outcome, envPage, file, batch_size, total_count,
                   last_processed_page, total_items, i, existing_data,
                   combined_data, probes, waits, failedPages, mergedPages,
                   savedPages, ioFailed, flushed, file0, env0, intPage,
                   crashedPage, prevFile, mergeVars, pureVars>>

\* the fetch succeeds and the loop body raises for a raw item (no dict, or no
\* asset_description): the exception leaves enrich_item_list and ends the
\* process
FetchRaise ==
    /\ pc = "fetch"
    /\ \E shape \in [1..Cardinality(PageOffsets(batch_start, batch_size, total_count)) -> Shapes] :
          LET result_list == ResultList(batch_start, batch_size, total_count, shape)
          IN  /\ lastResults' = result_list
              /\ \E k \in 1..Len(result_list) : Raises(result_list[k])
    /\ requests' = Append(requests, PageRequest)
    /\ outcome' = "exception"
    /\ pc' = "crashed"
    /\ NoLocals
    /\ UNCHANGED <<run, envPage, file, batch_size, total_count,
                   last_processed_page, probes, waits, failedPages,
                   mergedPages, savedPages, ioFailed, flushed, file0, env0,
                   intPage, crashedPage, prevFile, mergeVars, pureVars>>

\* --------------------------------------------------------------- save_to_json
\* SaveRead without the except clause: json.load's error on an unparseable
\* file leaves save_to_json and ends the process
SaveRead_raise ==
    /\ pc = "save_read"
    /\ prevFile' = file
    /\ IF file.kind = "corrupt"
       THEN /\ outcome' = "exception"
            /\ pc' = "crashed"
            /\ NoLocals
       ELSE /\ existing_data' = Existing(file)
            /\ combined_data' = Combined(Existing(file), data)
            /\ pc' = "save_open"
            /\ UNCHANGED <<outcome, total_items, i, data, caller>>
    /\ UNCHANGED <<run, envPage, file, batch_size, total_count,
                   last_processed_page,
                   requests, probes, waits, failedPages, mergedPages,
                   savedPages, ioFailed, flushed, file0, env0, intPage,
                   crashedPage, lastResults, mergeVars, pureVars>>

\* lines 112-121: load the file, build combined_data
SaveRead ==
    /\ pc = "save_read"
    /\ prevFile' = file
    /\ existing_data' = Existing(file)
    /\ combined_data' = Combined(Existing(file), data)
    /\ pc' = "save_open"
    /\ UNCHANGED <<run, outcome, envPage, file, batch_size, total_count,
                   last_processed_page, total_items, i, data, caller,
                   requests, probes, waits, failedPages, mergedPages,
                   savedPages, ioFailed, flushed, file0, env0, intPage,
                   crashedPage, lastResults, mergeVars, pureVars>>

\* save_to_json returns to its call site: the next loop value after a page,
\* the end of the function after the interrupt handler's flush
SaveReturn ==
    /\ existing_data' = <<>>
    /\ combined_data' = <<>>
    /\ data' = <<>>
    /\ caller' = "none"
    /\ IF caller = "page"
       THEN /\ savedPages' = savedPages \cup {current_page}
            /\ i' = i + batch_size
            /\ pc' = "loop"
            /\ UNCHANGED <<outcome, flushed>>
       ELSE /\ flushed' = TRUE
            /\ outcome' = "interrupted"
            /\ pc' = "done"
            /\ UNCHANGED <<savedPages, i>>

\* open(file_path, 'w') truncates the file
SaveOpen ==
    /\ pc = "save_open"
    /\ file' = CorruptFile
    /\ pc' = "save_dump"
    /\ UNCHANGED <<run, outcome, envPage, batch_size, total_count,
                   last_processed_page, total_items, i, data, caller,
                   existing_data, combined_data, requests, probes, waits,
                   failedPages, mergedPages, savedPages, ioFailed, flushed,
                   file0, env0, intPage, crashedPage, prevFile, lastResults, mergeVars, pureVars>>

\* open(file_path, 'w') raises: except Exception logs, the file is untouched
SaveOpenFail ==
    /\ pc = "save_open"
    /\ ioFailed' = TRUE
    /\ SaveReturn
    /\ UNCHANGED <<run, envPage, file, batch_size, total_count,
                   last_processed_page, total_items, requests, probes, waits,
                   failedPages, mergedPages, file0, env0, intPage,
                   crashedPage, prevFile, lastResults, mergeVars, pureVars>>

\* json.dump(combined_data, f, ...) completes and the file is closed
SaveDump ==
    /\ pc = "save_dump"
    /\ file' = OkFile(combined_data)
    /\ mergedPages' = IF caller = "page" THEN mergedPages \cup {current_page}
                                         ELSE mergedPages
    /\ SaveReturn
    /\ UNCHANGED <<run, envPage, batch_size, total_count,
                   last_processed_page, total_items, requests, probes, waits,
                   failedPages, ioFailed, file0, env0, intPage, crashedPage,
                   prevFile, lastResults, mergeVars, pureVars>>

\* json.dump raises part-way: except Exception logs, the file stays partial
SaveDumpFail ==
    /\ pc = "save_dump"
    /\ ioFailed' = TRUE
    /\ SaveReturn
    /\ UNCHANGED <<run, envPage, file, batch_size, total_count,
                   last_processed_page, total_items, requests, probes, waits,
                   failedPages, mergedPages, file0, env0, intPage,
                   crashedPage, prevFile, lastResults, mergeVars, pureVars>>

\* ------------------------------------------------------------ process kill
InPage == pc \in {"wait", "setkey", "fetch"}
          \/ (pc \in {"save_read", "save_open", "save_dump"} /\ caller = "page")

Running == pc \in {"probe", "loop", "wait", "setkey", "fetch", "save_read",
                   "save_open", "save_dump"}

\* the process is killed; whatever is in memory is lost
Kill ==
    /\ Running
    /\ crashedPage' = IF InPage THEN current_page ELSE 0
    /\ outcome' = "killed"
    /\ pc' = "crashed"
    /\ NoLocals
    /\ UNCHANGED <<run, envPage, file, batch_size, total_count,
                   last_processed_page, requests, probes, waits, failedPages,
                   mergedPages, savedPages, ioFailed, flushed, file0, env0,
                   intPage, prevFile, lastResults, mergeVars, pureVars>>

Next ==
    \/ Launch
    \/ ProbeOk
    \/ ProbeFail
    \/ LoopEnter
    \/ LoopExit
    \/ WaitReturn
    \/ WaitInterrupted
    \/ SetKey
    \/ FetchFail
    \/ FetchOk
    \/ FetchRaise
    \/ SaveRead
    \/ SaveOpen
    \/ SaveOpenFail
    \/ SaveDump
    \/ SaveDumpFail
    \/ Kill

Spec == Init /\ [][Next]_vars

\* One step of the running process.  Every call the process makes returns
\* (Timer.pause, requests.get with its timeout, the file operations), so a
\* running process keeps taking steps until it ends or is killed.
Step ==
    \/ ProbeOk
    \/ ProbeFail
    \/ LoopEnter
    \/ LoopExit
    \/ WaitReturn
    \/ WaitInterrupted
    \/ SetKey
    \/ FetchFail
    \/ FetchOk
    \/ FetchRaise
    \/ SaveRead
    \/ SaveOpen
    \/ SaveOpenFail
    \/ SaveDump
    \/ SaveDumpFail

SpecFair == Init /\ [][Next]_vars /\ WF_vars(Step)

\* ------------------------------------------------ save_to_json on its own
\* SpecMerge applies save_to_json, as one call whose file operations succeed,
\* to stores and batches drawn from bounded sets.
MergeRecords ==
    {Normalize(RawItem(o, "full"), <<1, 1>>) : o \in 0..(NumRecords - 1)}

Batches == UNION {[1..n -> MergeRecords] : n \in 0..MaxBatchLen}

InitMerge ==
    /\ pc = "merge"
    /\ run = 0
    /\ outcome = "none"
    /\ envPage = 0
    /\ file \in {AbsentFile, CorruptFile, OkFile(<<>>)}
    /\ batch_size = 1
    /\ total_count = 0
    /\ last_processed_page = 0
    /\ total_items = 0
    /\ i = 0
    /\ data = <<>>
    /\ caller = "none"
    /\ existing_data = <<>>
    /\ combined_data = <<>>
    /\ requests = <<>>
    /\ probes = 0
    /\ waits = 0
    /\ failedPages = {}
    /\ mergedPages = {}
    /\ savedPages = {}
    /\ ioFailed = FALSE
    /\ flushed = FALSE
    /\ file0 = file
    /\ env0 = 0
    /\ intPage = 0
    /\ crashedPage = 0
    /\ prevFile = file
    /\ mCalls = 0
    /\ mOnce = file
    /\ mCount = 0
    /\ lastResults = <<>>
    /\ nItem = NotKeyed
    /\ nOut = [status |-> "none", rec |-> <<>>]
    /\ qQuery = <<>>
    /\ qMax = 0
    /\ qParams = <<>>

\* save_to_json(b, file_path) for a fresh batch b
MergeFresh ==
    /\ pc = "merge"
    /\ mCount < MaxMerges
    /\ \E b \in Batches :
          /\ data' = b
          /\ file' = SaveToJson(file, b)
    /\ prevFile' = file
    /\ mOnce' = file'
    /\ mCalls' = 1
    /\ mCount' = mCount + 1
    /\ UNCHANGED <<crawlVars, existing_data, combined_data, pureVars>>

\* save_to_json(data, file_path) once more with the batch of the latest call
MergeAgain ==
    /\ pc = "merge"
    /\ mCalls = 1
    /\ file' = SaveToJson(file, data)
    /\ prevFile' = file
    /\ mCalls' = 2
    /\ UNCHANGED <<crawlVars, data, existing_data, combined_data, mOnce, mCount,
                   pureVars>>

NextMerge ==
    \/ MergeFresh
    \/ MergeAgain

SpecMerge == InitMerge /\ [][NextMerge]_vars

\* ------------------------------------------- the loop body on its own
\* SpecNorm applies the body of the for loop over result_list to one raw item
\* drawn from a bounded set.
Chars == {"F", " ", "&"}

Strings == UNION {[1..n -> Chars] : n \in 0..MaxStrLen}

OptStrings == {Missing} \cup {Some(str) : str \in Strings}

Descriptions ==
    {NoDescription} \cup
    {Description(g, t) : g \in {Missing, Some(<<"G">>)}, t \in {Missing, Some(<<"T">>)}}

NormItems ==
    {NotKeyed} \cup
    {[keyed |-> TRUE, hash_name |-> h, name |-> n, asset_description |-> d] :
        h \in OptStrings, n \in OptStrings, d \in Descriptions}

\* the variables of the crawl, before any process start
Quiet ==
    /\ run = 0
    /\ outcome = "none"
    /\ envPage = 0
    /\ file = AbsentFile
    /\ batch_size = 1
    /\ total_count = 0
    /\ last_processed_page = 0
    /\ total_items = 0
    /\ i = 0
    /\ data = <<>>
    /\ caller = "none"
    /\ existing_data = <<>>
    /\ combined_data = <<>>
    /\ requests = <<>>
    /\ probes = 0
    /\ waits = 0
    /\ failedPages = {}
    /\ mergedPages = {}
    /\ savedPages = {}
    /\ ioFailed = FALSE
    /\ flushed = FALSE
    /\ file0 = AbsentFile
    /\ env0 = 0
    /\ intPage = 0
    /\ crashedPage = 0
    /\ prevFile = AbsentFile
    /\ mCalls = 0
    /\ mOnce = AbsentFile
    /\ mCount = 0
    /\ lastResults = <<>>

InitNorm ==
    /\ pc = "norm"
    /\ Quiet
    /\ nItem \in NormItems
    /\ nOut = [status |-> "none", rec |-> <<>>]
    /\ qQuery = <<>>
    /\ qMax = 0
    /\ qParams = <<>>

\* one pass of the loop body (lines 87-103) for item = nItem
NormalizeItem ==
    /\ pc = "norm"
    /\ nOut.status = "none"
    /\ nOut' = IF Raises(nItem)
               THEN [status |-> Exception(nItem), rec |-> <<>>]
               ELSE [status |-> "ok", rec |-> Normalize(nItem, <<1, 1>>)]
    /\ UNCHANGED <<crawlVars, file, data, existing_data, combined_data,
                   prevFile, mergeVars, nItem, qQuery, qMax, qParams>>

NextNorm == NormalizeItem

SpecNorm == InitNorm /\ [][NextNorm]_vars

\* ------------------------------------- make_steam_request's params on their own
\* SpecQuery builds the params for a filter descriptor followed by the
\* start part of a page query.
FilterKeys == {"category_753_item_class[]", "category_753_cardborder[]"}

DescriptorKeys ==
    FilterKeys \cup {"category_753_item_class%5B%5D", "category_753_cardborder%5B%5D",
                     "category_753_type%5B%5D", "appid"}

DescriptorParts ==
    {Part(k, v) : k \in DescriptorKeys, v \in {"tag_0", "tag_1"}} \cup {Bare("norender")}

Descriptors == UNION {[1..n -> DescriptorParts] : n \in 0..MaxParts}

InitQuery ==
    /\ pc = "query"
    /\ Quiet
    /\ nItem = NotKeyed
    /\ nOut = [status |-> "none", rec |-> <<>>]
    /\ \E d \in Descriptors, n \in 0..MaxStart : qQuery = d \o <<StartPart(n)>>
    /\ qMax \in 1..MaxBatch
    /\ qParams = <<>>

\* lines 23-43 for query = qQuery, max_results = qMax
BuildParams ==
    /\ pc = "query"
    /\ DOMAIN qParams = {}
    /\ qParams' = RequestParams(qQuery, qMax)
    /\ UNCHANGED <<crawlVars, file, data, existing_data, combined_data,
                   prevFile, mergeVars, nItem, nOut, qQuery, qMax>>

NextQuery == BuildParams

SpecQuery == InitQuery /\ [][NextQuery]_vars

\* ================================================================ properties
\* requests of the current run
RunRequests == SelectSeq(requests, LAMBDA r : r.run = run)

\* number of requests of the current run whose clamped range
\* [start, min(start + count, T)) contains offset o
Coverage(o) ==
    Cardinality({k \in 1..Len(RunRequests) :
        /\ RunRequests[k].start <= o
        /\ o < Min(RunRequests[k].start + RunRequests[k].count, total_count)})

\* number of requests of the current run for page p
RequestsFor(p) ==
    Cardinality({k \in 1..Len(RunRequests) : RunRequests[k].start = p * batch_size})

\* the record of raw offset o is in the output file
Stored(o) == \E k \in 1..Len(file.data) : file.data[k].name = NameOf(o)

\* raw offsets of page p
OffsetsOf(p) == PageOffsets(p * batch_size, batch_size, total_count)

Completed == pc = "done" /\ outcome = "completed"

\* C1: a run that starts from checkpoint 0 and completes without a failed
\* fetch or an interrupt has requested every raw offset of [0, T) exactly
\* once, the ranges being clamped to T.
C1_PaginationComplete ==
    (Completed /\ last_processed_page = 0 /\ failedPages = {})
        => \A o \in 0..(total_count - 1) : Coverage(o) = 1

\* C2: whenever the persisted checkpoint has been set by the current run to
\* page p, the save_to_json call of page p has already returned.
C2_CheckpointAfterMerge ==
    (run >= 1 /\ envPage # env0) => envPage \in savedPages

\* C3: a run started after the process was killed while page p was in flight
\* and unmerged begins at page p.
C3_ResumeAtCrashedPage ==
    (pc = "probe" /\ crashedPage # 0) => page_to_process = crashedPage

\* C4: a failed fetch is not retried and does not end the run: a run that
\* completes has requested every page of its range exactly once, has handed
\* every page whose fetch succeeded to save_to_json (its records are in the
\* store when no write failed), has checkpointed the last page, and the store
\* holds no record of a page whose fetch failed.
C4_SkipOnFailure ==
    /\ \A k \in failedPages : RequestsFor(k) = 1 /\ \A o \in OffsetsOf(k) : ~Stored(o)
    /\ Completed =>
          /\ \A p \in page_to_process..total_pages :
                /\ RequestsFor(p) = 1
                /\ p \notin failedPages =>
                      /\ p \in savedPages
                      /\ ~ioFailed => file.kind = "ok" /\ \A o \in OffsetsOf(p) : Stored(o)
          /\ page_to_process <= total_pages => envPage = total_pages

C4_Witness ==
    /\ Completed
    /\ ~ioFailed
    /\ \E k \in failedPages : \E p \in mergedPages :
          /\ p > k
          /\ OffsetsOf(k) # {}
          /\ OffsetsOf(p) # {}

\* C5: a run whose probe failed has ended at once: it began no wait, sent no
\* page request, wrote neither the checkpoint nor the store.
C5_FatalProbe ==
    outcome = "probe_abort" =>
        /\ pc = "done"
        /\ probes = 1
        /\ waits = 0
        /\ RunRequests = <<>>
        /\ savedPages = {}
        /\ envPage = env0
        /\ file = file0

C5_Witness ==
    /\ outcome = "probe_abort"
    /\ run >= 2
    /\ envPage < ceil_div(total_count, batch_size)

\* C6: once the wait before page p has been interrupted, the run requests
\* neither page p nor a later page, does nothing but save_to_json([]) and
\* ends without an exception; when no write of the run failed the store then
\* is parseable and still holds what it held at the start of the run and the
\* records of the pages merged by the run.
C6_UserInterrupt ==
    intPage # 0 =>
        /\ \A k \in 1..Len(RunRequests) : RunRequests[k].start < intPage * batch_size
        /\ outcome # "exception"
        /\ \/ pc \in {"save_read", "save_open", "save_dump"} /\ caller = "flush" /\ data = <<>>
           \/ pc = "done" /\ outcome = "interrupted" /\ flushed
           \/ pc = "crashed" /\ outcome = "killed"
        /\ (pc = "done" /\ ~ioFailed) =>
              /\ file.kind = "ok"
              /\ SubSeq(file.data, 1, Len(Existing(file0))) = Existing(file0)
              /\ \A p \in mergedPages : \A o \in OffsetsOf(p) : Stored(o)

C6_Witness ==
    /\ pc = "done"
    /\ outcome = "interrupted"
    /\ flushed
    /\ ~ioFailed
    /\ intPage >= 2
    /\ intPage <= ceil_div(total_count, batch_size)
    /\ \E p \in mergedPages : OffsetsOf(p) # {}

\* C7: after save_to_json has been called twice in a row with the same batch
\* the store equals the store after the first of the two calls.
C7_IdempotentMerge ==
    mCalls = 2 => file = mOnce

C7_Witness ==
    /\ mCalls = 2
    /\ data # <<>>
    /\ Len(file.data) > Len(data)
    /\ \E k \in 1..Len(data) : InList(data[k], prevFile.data)

\* no two equal records in the list s
NoDuplicates(s) == \A j, k \in 1..Len(s) : s[j] = s[k] => j = k

\* C8: starting from an absent or empty store, after any sequence of merges
\* no two equal records coexist in the store.
C8_StoreUnique ==
    (pc = "merge" /\ file0 \in {AbsentFile, OkFile(<<>>)}) => NoDuplicates(file.data)

\* the elements of d that are not in s, in the order of d
RECURSIVE NotIn(_, _)
NotIn(d, s) ==
    IF d = <<>> THEN <<>>
    ELSE IF InList(Head(d), s) THEN NotIn(Tail(d), s)
         ELSE <<Head(d)>> \o NotIn(Tail(d), s)

\* C9: after save_to_json(b) on a parseable store S the store is S, unchanged
\* and in order, followed by the records of b that were not in S, in the
\* order of b.
C9_AppendOnly ==
    (mCalls >= 1 /\ prevFile.kind = "ok") =>
        /\ file.kind = "ok"
        /\ Len(file.data) >= Len(prevFile.data)
        /\ SubSeq(file.data, 1, Len(prevFile.data)) = prevFile.data
        /\ SubSeq(file.data, Len(prevFile.data) + 1, Len(file.data))
              = NotIn(data, prevFile.data)

C9_Witness ==
    /\ mCalls = 1
    /\ prevFile.kind = "ok"
    /\ Len(prevFile.data) >= 2
    /\ Len(file.data) > Len(prevFile.data)
    /\ \E k \in 1..Len(data) : InList(data[k], prevFile.data)

\* C10: the output file only ever changes from one complete collection to
\* the next: every step that changes the file leaves a parseable file.
C10_AtomicReplace ==
    [][file' # file => file'.kind = "ok"]_vars

C13_OffsetsInRange ==
    \A k \in 1..Len(requests) :
        /\ requests[k].start >= 0
        /\ requests[k].start % requests[k].count = 0
        /\ requests[k].start < total_count
        /\ requests[k].start <= Min(requests[k].start + requests[k].count, total_count)

RECURSIVE Keyed(_)
Keyed(rl) ==
    IF rl = <<>> THEN <<>>
    ELSE IF Head(rl).keyed THEN <<Head(rl)>> \o Keyed(Tail(rl))
         ELSE Keyed(Tail(rl))

\* a fetched page with an item that is no dict among otherwise well-formed items
MixedPage ==
    /\ \E k \in 1..Len(lastResults) : ~lastResults[k].keyed
    /\ \E k \in 1..Len(lastResults) : lastResults[k].keyed
    /\ \A k \in 1..Len(lastResults) :
          lastResults[k].keyed => lastResults[k].asset_description.has

\* C14: when a fetched page holds an item that is no dict among well-formed
\* items, no exception ends the run, the page does not count as failed, and
\* the records of the well-formed items are what is handed to save_to_json.
C14_ItemSkip ==
    MixedPage =>
        /\ outcome # "exception"
        /\ pc # "crashed" => current_page \notin failedPages
        /\ (pc = "save_read" /\ caller = "page") =>
              data = [k \in 1..Len(Keyed(lastResults)) |->
                        Normalize(Keyed(lastResults)[k], <<run, current_page>>)]

RecordFields == {"item_market_url", "name", "type", "subtype", "game_name",
                 "game_type", "fetch_time"}

\* C15: for a keyed raw item the loop body raises nothing, whichever optional
\* keys are missing, and the record has all seven fields, with the
\* placeholders for a missing display name, game name and game type.
C15_Placeholders ==
    (nOut.status # "none" /\ nItem.keyed) =>
        /\ nOut.status = "ok"
        /\ DOMAIN nOut.rec = RecordFields
        /\ nOut.rec.name = (IF nItem.name.has THEN nItem.name.val ELSE UnknownName)
        /\ nOut.rec.game_name = (IF nItem.asset_description.game.has
                                 THEN nItem.asset_description.game.val ELSE UnknownGame)
        /\ nOut.rec.game_type = (IF nItem.asset_description.type.has
                                 THEN nItem.asset_description.type.val ELSE UnknownType)

\* C18 as stated: the identity is the hash name whenever the key is present,
\* and otherwise the display name with "_" for every space; the URL is the
\* base, "753/" and the percent-encoded identity.
C18_IdentityWhenPresent ==
    nOut.status = "ok" =>
        nOut.rec.item_market_url =
            market_base_url \o <<"753/">> \o
            quote(IF nItem.hash_name.has THEN nItem.hash_name.val
                  ELSE ReplaceSpaces(Get(nItem.name, <<>>)))

\* the part of the URL after the base and "753/"
UrlTail(url) == SubSeq(url, Len(market_base_url) + 2, Len(url))

\* C18, amended: the identity is the hash name when it is present and not
\* empty, and otherwise the display name (empty when missing) with "_" for
\* every space; the URL is the base, "753/" and the percent-encoded identity.
C18_FallbackIdentity ==
    nOut.status = "ok" =>
        LET usable == nItem.hash_name.has /\ nItem.hash_name.val # <<>>
            shown == IF nItem.name.has THEN nItem.name.val ELSE <<>>
            identity == IF usable THEN nItem.hash_name.val
                        ELSE [k \in 1..Len(shown) |->
                                IF shown[k] = " " THEN "_" ELSE shown[k]]
        IN  /\ SubSeq(nOut.rec.item_market_url, 1, Len(market_base_url) + 1)
                  = market_base_url \o <<"753/">>
            /\ UrlTail(nOut.rec.item_market_url) = quote(identity)
            /\ (~usable /\ shown = <<"F", " ", "F">>) =>
                  UrlTail(nOut.rec.item_market_url) = <<"F", "_", "F">>

C18_Witness ==
    /\ nOut.status = "ok"
    /\ ~nItem.hash_name.has
    /\ nItem.name = Some(<<"F", " ", "F">>)

\* keys a params dict may carry
ParamKeys == DOMAIN DefaultParams(0) \cup FilterKeys

\* C16: the params built for a descriptor of decoded key=value tokens and a
\* page offset hold the fixed defaults, every item-class and card-border
\* filter of the descriptor with its value, the page offset as start, and no
\* other key.
C16_QueryTranslation ==
    DOMAIN qParams # {} =>
        /\ qParams["search_descriptions"] = 0
        /\ qParams["sort_column"] = "price"
        /\ qParams["sort_dir"] = "asc"
        /\ qParams["appid"] = 753
        /\ qParams["currency"] = 1
        /\ qParams["norender"] = 1
        /\ qParams["count"] = qMax
        /\ qParams["start"] = IntOf(qQuery[Len(qQuery)].value)
        /\ DOMAIN qParams \subseteq ParamKeys
        /\ \A k \in 1..Len(qQuery) :
              (qQuery[k].eq /\ qQuery[k].key \in FilterKeys) =>
                  /\ qQuery[k].key \in DOMAIN qParams
                  /\ qParams[qQuery[k].key] = qQuery[k].value

\* C17: when the output file is unparseable at the start of save_to_json the
\* existing collection counts as empty, no exception leaves save_to_json
\* (exceptions only come from normalising a raw item), the write installs
\* exactly the new batch, and after a page's save the loop goes on with the
\* next value.
C17_CorruptionFallback ==
    /\ [](/\ (pc \in {"save_open", "save_dump"} /\ prevFile.kind = "corrupt") =>
                /\ existing_data = <<>>
                /\ combined_data = data
          /\ outcome = "exception" =>
                \E k \in 1..Len(lastResults) : Raises(lastResults[k]))
    /\ [][(pc = "save_dump" /\ prevFile.kind = "corrupt" /\ file' # file) =>
             /\ file' = OkFile(data)
             /\ caller = "page" => (pc' = "loop" /\ i' = i + batch_size)]_vars

C17_Witness ==
    /\ Completed
    /\ file0.kind = "corrupt"
    /\ ~ioFailed
    /\ Cardinality(mergedPages) >= 2
    /\ \E p \in mergedPages : OffsetsOf(p) # {}

Ended == pc \in {"done", "crashed"}

\* every run ends
RunEnds == Running ~> Ended

\* a run sends at most one probe and at most max(0, total_pages - checkpoint)
\* page requests
RequestBound ==
    /\ probes <= 1
    /\ Len(RunRequests) <=
          (IF ceil_div(total_count, batch_size) > last_processed_page
           THEN ceil_div(total_count, batch_size) - last_processed_page ELSE 0)

\* a run that was not killed ended by completion, probe abort or interrupt,
\* after exactly one probe
EndsAsExpected ==
    (Ended /\ outcome # "killed") =>
        /\ outcome \in {"completed", "probe_abort", "interrupted"}
        /\ probes = 1

\* C20: every run ends, by completion, by probe abort or by interrupt, after
\* one probe request and at most max(0, total_pages - checkpoint) page
\* requests.
C20_Termination ==
    /\ [](RequestBound /\ EndsAsExpected)
    /\ RunEnds

\* the part of C20 that does not name the ways a run ends
C20_EndsWithinBound == []RequestBound /\ RunEnds

====
